---- MODULE Spec2Model ----
(***************************************************************************)
(* Block-wise INT4/INT8 quantization, src/trab3/scripts/quantize_blockwise.py *)
(*                                                                         *)
(* Numbers.  A dyadic [m |-> m, e |-> e] is the real m * 2^e.  The elements *)
(* of one buffer share an exponent tensor_exp: element j is the integer    *)
(* tensor[j] times 2^tensor_exp (-1: halves; -149: units of the smallest   *)
(* float32 subnormal).  A float32 is a dyadic with 2^23 <= m < 2^24 and    *)
(* e >= -149 (normal), or with m < 2^23 and e = -149 (subnormal or zero).  *)
(* Single-precision division is computed bit by bit and rounded to nearest *)
(* even, with gradual underflow, as IEEE 754 arithmetic does.              *)
(*                                                                         *)
(* A tensor name is the sequence of its characters.  Byte totals of the     *)
(* statistics are kept in units of 2^-20 MB (bytes): the code divides each  *)
(* byte count by 1024 * 1024 and adds the quotients, which is exact in      *)
(* double precision.                                                       *)
(***************************************************************************)
EXTENDS Integers, Sequences, FiniteSets

VARIABLES pc,               \* position: "start" | "done" | "raised" | "codes" | "packed" |
                            \*   "unpacked" | "loop" | "saved" | "returned" | "policy" | "decided"
          tensor,           \* flattened input buffer, row-major: integers, in units of
          tensor_exp,       \*   2^tensor_exp
          original_shape,   \* tensor.shape
          original_dtype,   \* tensor.dtype
          block_size,       \* block_size argument
          bits,             \* bits argument
          quantized_blocks, \* n_blocks rows of block_size codes (padding included)
          scales,           \* one float32 per block
          quantized_flat,   \* code stream with the padding removed
          quantized_tensor, \* returned buffer: [data, shape]
          unpacked,         \* codes a consumer recovers from a packed buffer
          raised,           \* exception that ended the call, or "none"
          tensors,          \* quantize_model: the loaded dict, name -> tensor
          order,            \* iteration order of tensors.items()
          idx,              \* 1-based position of the loop in order
          quantized_tensors,\* the output dict, name -> buffer
          stats,            \* the statistics dict
          writer_calls,     \* number of save_file invocations
          saved,            \* the mapping save_file persisted
          name,             \* should_quantize_tensor: name argument
          tensor_size,      \* should_quantize_tensor: tensor.size
          decision          \* should_quantize_tensor: returned bool, or "none"

\* state of quantize_model
mvars == <<tensors, order, idx, quantized_tensors, stats, writer_calls, saved>>

\* state of should_quantize_tensor
pvars == <<name, tensor_size, decision>>

vars == <<pc, tensor, tensor_exp, original_shape, original_dtype, block_size, bits, quantized_blocks,
          scales, quantized_flat, quantized_tensor, unpacked, raised, mvars, pvars>>

\* ---------------------------------------------------------------- bounds
MaxLen == 3      \* longest tensor of the block family; block sizes are 1..MaxLen
MaxMag == 1      \* block family: elements are -MaxMag..MaxMag halves
MaxWide == 14    \* pair family: elements are -MaxWide..MaxWide halves (14 halves = 7.0)
MaxTiny == 25    \* tiny family: elements are -MaxTiny..MaxTiny times 2^-149
MaxCodes == 3    \* longest free code sequence handed to the packer
MaxBad == 2      \* longest tensor of the configuration family
MaxCast == 2     \* longest tensor of the element-type families
MaxFragments == 2 \* most name pieces in a tensor name handed to the policy
MaxTensors == 3  \* most tensors in a model file
SmallSize == 2   \* element count of the short tensors of a model file

\* ---------------------------------------------------------------- helpers
Abs(x) == IF x < 0 THEN -x ELSE x

Sign(x) == IF x < 0 THEN -1 ELSE IF x > 0 THEN 1 ELSE 0

SetMax(S) == CHOOSE x \in S : \A y \in S : y <= x

SeqsUpTo(S, n) == UNION {[1..k -> S] : k \in 0..n}

\* ------------------------------------------------------ float32 arithmetic
F32Prec == 24

F32MinExp == -149

\* exponent of the last place of the largest finite float32, (2^24 - 1) * 2^104
F32MaxExp == 104

\* long division: shift quotient bits in until the quotient has F32Prec bits
\* (six bits at a time while that cannot overshoot, then one at a time)
RECURSIVE DivBits(_, _, _, _)
DivBits(q, r, b, e) ==
    IF q >= 2^(F32Prec - 1) THEN [q |-> q, r |-> r, e |-> e]
    ELSE IF q < 2^(F32Prec - 7)
    THEN DivBits(64 * q + ((64 * r) \div b), (64 * r) % b, b, e - 6)
    ELSE DivBits(2 * q + ((2 * r) \div b), (2 * r) % b, b, e - 1)

\* long division that shifts in exactly k quotient bits
RECURSIVE ShiftDiv(_, _, _, _)
ShiftDiv(q, r, b, k) ==
    IF k = 0 THEN [q |-> q, r |-> r, b |-> b]
    ELSE ShiftDiv(2 * q + ((2 * r) \div b), (2 * r) % b, b, k - 1)

\* quotient q with remainder r of divisor b, rounded to nearest, ties to even
RoundEven(q, r, b) ==
    IF 2 * r > b \/ (2 * r = b /\ q % 2 = 1) THEN q + 1 ELSE q

\* float32 quotient a / b of two positive dyadics: F32Prec significant bits,
\* or, below the normal range, the bits down to 2^F32MinExp
DyDiv(a, b) ==
    LET t == DivBits(a.m \div b.m, a.m % b.m, b.m, 0)
        e == t.e + a.e - b.e
    IN IF e >= F32MinExp
       THEN LET m == RoundEven(t.q, t.r, b.m)
            IN IF m = 2^F32Prec THEN [m |-> 2^(F32Prec - 1), e |-> e + 1]
               ELSE [m |-> m, e |-> e]
       ELSE LET k == a.e - b.e - F32MinExp
                u == IF k >= 0
                     THEN ShiftDiv(a.m \div b.m, a.m % b.m, b.m, k)
                     ELSE [q |-> a.m \div (b.m * 2^(-k)),
                           r |-> a.m % (b.m * 2^(-k)), b |-> b.m * 2^(-k)]
            IN [m |-> RoundEven(u.q, u.r, u.b), e |-> F32MinExp]

\* the float32 1.0 (line 114: scale = 1.0)
F32One == [m |-> 2^(F32Prec - 1), e |-> 1 - F32Prec]

\* rounding with ties away from zero
RintAway(v) ==
    IF v.e >= 0 THEN v.m * 2^v.e
    ELSE IF -v.e > F32Prec THEN 0
    ELSE LET d == 2^(-v.e)
             k == v.m \div d
             r == v.m % d
         IN IF 2 * r >= d THEN k + 1 ELSE k

\* rounding by truncation
RintFloor(v) ==
    IF v.e >= 0 THEN v.m * 2^v.e
    ELSE IF -v.e > F32Prec THEN 0
    ELSE v.m \div 2^(-v.e)

\* np.round on a non-negative float32 [m, e]: nearest integer, ties to even
Rint(v) ==
    IF v.e >= 0 THEN v.m * 2^v.e
    ELSE IF -v.e > F32Prec THEN 0
    ELSE LET d == 2^(-v.e)
             k == v.m \div d
             r == v.m % d
         IN IF 2 * r > d \/ (2 * r = d /\ k % 2 = 1) THEN k + 1 ELSE k

\* ---------------------------------------------------- quantize_blockwise
\* the 8-bit level for every width
max_val_wide(b) == 127

\* the levels one too large
max_val_eight(b) == IF b = 4 THEN 8 ELSE 128

\* lines 91-98: max_val, min_val by bit width
max_val(b) == IF b = 4 THEN 7 ELSE 127

min_val(b) == IF b = 4 THEN -8 ELSE -128

\* an off-by-one block count: one block too many when B divides n
n_blocks_plus(n, B) == (n \div B) + 1

\* line 80: ceil(n / B) by integer division
n_blocks(n, B) == (n + B - 1) \div B

n_pad(n, B) == n_blocks(n, B) * B - n

\* padding with a non-zero constant
PaddedOnes(flat, B) ==
    flat \o [j \in 1..n_pad(Len(flat), B) |-> 1]

\* np.pad(flat, (0, n_pad), constant_values=0)
Padded(flat, B) ==
    flat \o [j \in 1..n_pad(Len(flat), B) |-> 0]

\* blocks = flat.reshape(n_blocks, block_size); row i (1-based)
Block(flat, B, i) == SubSeq(Padded(flat, B), (i - 1) * B + 1, i * B)

\* np.abs(block).max(), in units of 2^ex
max_abs(block) == SetMax({Abs(block[j]) : j \in 1..Len(block)})

\* the scale taken over |min_val| instead of max_val
block_scale_min(block, ex, b) ==
    IF max_abs(block) > 0
    THEN DyDiv([m |-> max_abs(block), e |-> ex], [m |-> -min_val(b), e |-> 0])
    ELSE F32One

\* an all-zero block given the scale 2.0
block_scale_two(block, ex, b) ==
    IF max_abs(block) > 0
    THEN DyDiv([m |-> max_abs(block), e |-> ex], [m |-> max_val(b), e |-> 0])
    ELSE [m |-> 2^(F32Prec - 1), e |-> 2 - F32Prec]

\* lines 109-114: scale of one block (max_abs / max_val in float32, or 1.0)
block_scale(block, ex, b) ==
    IF max_abs(block) > 0
    THEN DyDiv([m |-> max_abs(block), e |-> ex], [m |-> max_val(b), e |-> 0])
    ELSE F32One

\* line 117, block / scale for one element h * 2^ex: a finite float32 magnitude
\* with the sign of h, or, when the scale has underflowed to 0, +-inf (h # 0)
\* or nan (h = 0)
F32Quot(h, ex, s) ==
    IF s.m = 0 THEN [kind |-> IF h = 0 THEN "nan" ELSE "inf", sgn |-> Sign(h)]
    ELSE IF h = 0 THEN [kind |-> "fin", sgn |-> 0, v |-> [m |-> 0, e |-> 0]]
    ELSE [kind |-> "fin", sgn |-> Sign(h),
          v |-> DyDiv([m |-> Abs(h), e |-> ex], s)]

clip(k, lo, hi) == IF k < lo THEN lo ELSE IF k > hi THEN hi ELSE k

\* positive quotients rounded with ties away from zero, negative ones with
\* ties to even
quantize_elem_half_up(h, ex, s, b, nan_code) ==
    LET q == F32Quot(h, ex, s)
    IN IF q.kind = "nan" THEN nan_code
       ELSE IF q.kind = "inf" THEN (IF q.sgn > 0 THEN max_val(b) ELSE min_val(b))
       ELSE clip(IF q.sgn > 0 THEN RintAway(q.v) ELSE q.sgn * Rint(q.v),
                 min_val(b), max_val(b))

\* line 117 for one element: np.round(q).clip(min_val, max_val).astype(int8).
\* round and clip keep nan, and clip takes +-inf to the bound; the int8 cast
\* of nan is undefined in C and yields nan_code.
quantize_elem(h, ex, s, b, nan_code) ==
    LET q == F32Quot(h, ex, s)
    IN IF q.kind = "nan" THEN nan_code
       ELSE IF q.kind = "inf" THEN (IF q.sgn > 0 THEN max_val(b) ELSE min_val(b))
       ELSE clip(q.sgn * Rint(q.v), min_val(b), max_val(b))

\* line 117: codes of one block under scale s
quantize_block(block, ex, s, b, nan_code) ==
    [j \in 1..Len(block) |-> quantize_elem(block[j], ex, s, b, nan_code)]

Flatten(rows, B) ==
    [j \in 1..(Len(rows) * B) |-> rows[((j - 1) \div B) + 1][((j - 1) % B) + 1]]

\* the padding codes kept
remove_padding_none(rows, B, n) == Flatten(rows, B)

\* line 123: quantized_blocks.flatten()[:n_elements]
remove_padding(rows, B, n) == SubSeq(Flatten(rows, B), 1, n)

\* ------------------------------------------------------------- bit packing
RECURSIVE BitOr(_, _)
BitOr(a, b) ==
    IF a = 0 THEN b
    ELSE IF b = 0 THEN a
    ELSE (IF a % 2 = 1 \/ b % 2 = 1 THEN 1 ELSE 0) + 2 * BitOr(a \div 2, b \div 2)

\* a mask that drops the sign bit
Mask4Low3(v) == v % 8

\* int(v) & 0x0F on a Python integer (two's complement of any width)
Mask4(v) == v % 16

\* the two nibbles in the wrong order
pack_byte_swapped(c1, c2) == BitOr(Mask4(c2) * 16, Mask4(c1))

\* lines 135-137: ((val1 << 4) | val2)
pack_byte(c1, c2) == BitOr(Mask4(c1) * 16, Mask4(c2))

\* lines 128-129: pad the code stream to even length
EvenPadded(qf) == IF Len(qf) % 2 = 1 THEN Append(qf, 0) ELSE qf

\* lines 126-139
PackInt4(qf) ==
    LET c == EvenPadded(qf)
    IN [i \in 1..(Len(c) \div 2) |-> pack_byte(c[2 * i - 1], c[2 * i])]

\* unpacking: high nibble, low nibble, sign-extend on bit 3
SignExtend4(v) == IF v >= 8 THEN v - 16 ELSE v

Unpack(bytes) ==
    [j \in 1..(2 * Len(bytes)) |->
        LET byte == bytes[(j + 1) \div 2]
        IN SignExtend4(IF j % 2 = 1 THEN byte \div 16 ELSE byte % 16)]

\* ------------------------------------------------------------------ inputs
Shapes(n) == {<<n>>} \cup {<<r, n \div r>> : r \in {k \in 2..n : n % k = 0}}

SmallValues == (-MaxMag)..MaxMag

\* 2 * max_val halves is the magnitude whose scale is exactly 1.0
WideValues == ((-MaxWide)..MaxWide) \cup {2 * max_val(8), -2 * max_val(8)}

TinyValues == (-MaxTiny)..MaxTiny

\* int8 results of casting nan: the low byte of the integer a float-to-int
\* conversion returns for nan (0x80000000 or 0 gives 0, 0x7fffffff gives -1)
NanCast == {0, -1}

\* block family: short alphabet, every length, block size and shape
BlockInit ==
    /\ tensor \in SeqsUpTo(SmallValues, MaxLen)
    /\ tensor_exp = -1
    /\ original_shape \in Shapes(Len(tensor))
    /\ block_size \in 1..MaxLen

\* pair family: one block of two elements over a wide alphabet
PairInit ==
    /\ tensor \in [1..2 -> WideValues]
    /\ tensor_exp = -1
    /\ original_shape = <<2>>
    /\ block_size = 2

\* tiny family: one or two subnormal elements
TinyInit ==
    /\ tensor \in [1..1 -> TinyValues] \cup [1..2 -> TinyValues]
    /\ tensor_exp = F32MinExp
    /\ original_shape = <<Len(tensor)>>
    /\ block_size = 2

\* bit widths a caller may pass: the two supported ones and two others
BitsChoices == {4, 8, 2, 16}

\* block sizes a caller may pass besides the positive ones
BadBlockSizes == {-2, -1, 0}

\* configuration family: a short tensor under an unsupported bit width or a
\* block size below 1
ConfigInit ==
    /\ tensor \in SeqsUpTo(SmallValues, MaxBad)
    /\ tensor_exp = -1
    /\ original_shape = <<Len(tensor)>>
    /\ bits \in BitsChoices
    /\ block_size \in BadBlockSizes \cup {1}
    /\ bits \notin {4, 8} \/ block_size < 1

\* quantize_model is not running
ModelIdle ==
    /\ tensors = <<>>
    /\ order = <<>>
    /\ idx = 0
    /\ quantized_tensors = <<>>
    /\ stats = <<>>
    /\ writer_calls = 0
    /\ saved = <<>>

\* should_quantize_tensor is not running
PolicyIdle ==
    /\ name = <<>>
    /\ tensor_size = 0
    /\ decision = "none"

\* scenario family: 256 elements all 3.5 (7 halves) in blocks of 128, as one
\* row or as a matrix
ScenarioInit ==
    /\ tensor = [j \in 1..256 |-> 7]
    /\ tensor_exp = -1
    /\ original_shape \in {<<256>>, <<2, 128>>, <<16, 16>>}
    /\ block_size = 128

Init ==
    /\ pc = "start"
    /\ \/ bits \in {4, 8} /\ (BlockInit \/ PairInit \/ TinyInit \/ ScenarioInit)
       \/ ConfigInit
    /\ quantized_blocks = <<>>
    /\ scales = <<>>
    /\ quantized_flat = <<>>
    /\ quantized_tensor = [data |-> <<>>, shape |-> <<>>]
    /\ unpacked = <<>>
    /\ original_dtype = "float32"
    /\ raised = "none"
    /\ ModelIdle
    /\ PolicyIdle

\* one scale for the whole tensor, taken over all its elements
ScalesGlobal(flat, ex, B, b) ==
    [i \in 1..n_blocks(Len(flat), B) |-> block_scale(Padded(flat, B), ex, b)]

\* lines 102-120: the scales array, one entry per block
Scales(flat, ex, B, b) ==
    [i \in 1..n_blocks(Len(flat), B) |-> block_scale(Block(flat, B, i), ex, b)]

\* lines 101-119: the rows of quantized_blocks
QuantizedBlocks(flat, ex, B, b, nan_code) ==
    [i \in 1..n_blocks(Len(flat), B) |->
        quantize_block(Block(flat, B, i), ex,
                       block_scale(Block(flat, B, i), ex, b), b, nan_code)]

\* lines 125-142: the returned buffer
QuantizedTensor(qf, shp, b) ==
    IF b = 4
    THEN [data |-> PackInt4(qf), shape |-> <<Len(PackInt4(qf))>>]
    ELSE [data |-> qf, shape |-> shp]

\* the exception quantize_blockwise ends with, or "none": line 66 raises
\* ValueError for an unsupported width; line 80 divides by block_size (Python
\* integers: ZeroDivisionError for 0); a negative block_size gives no padding
\* and a negative dimension, which numpy rejects with ValueError in reshape
\* (line 88) or np.zeros (line 101)
quantize_error(B, b) ==
    IF b \notin {4, 8} THEN "ValueError"
    ELSE IF B = 0 THEN "ZeroDivisionError"
    ELSE IF B < 0 THEN "ValueError"
    ELSE "none"

\* number of bits of a positive integer
RECURSIVE BitLen(_)
BitLen(h) == IF h = 0 THEN 0 ELSE 1 + BitLen(h \div 2)

\* a magnitude rounded to F32Prec significant bits, ties to even
RoundToF32(h) ==
    IF h < 2^F32Prec THEN h
    ELSE LET d == 2^(BitLen(h) - F32Prec)
         IN RoundEven(h \div d, h % d, d) * d

\* lines 72-73: tensor.astype(np.float32) on one element h (in units of
\* 2^tensor_exp, well inside the float32 exponent range).  The values of
\* float32, float16 and uint16 buffers are float32 values already; a float64
\* value is rounded to single precision.
astype_float32(dt, h) ==
    IF dt = "float64" THEN Sign(h) * RoundToF32(Abs(h)) ELSE h

\* lines 72-76: the float32 buffer the blocks are cut from
Float32Flat(dt, flat) == [j \in 1..Len(flat) |-> astype_float32(dt, flat[j])]

\* quantize_blockwise(tensor, block_size, bits) returning normally
QuantizeBlockwise ==
    /\ pc = "start"
    /\ quantize_error(block_size, bits) = "none"
    /\ scales' = Scales(Float32Flat(original_dtype, tensor), tensor_exp, block_size, bits)
    /\ \E nan_code \in NanCast :
          quantized_blocks' =
             QuantizedBlocks(Float32Flat(original_dtype, tensor), tensor_exp,
                             block_size, bits, nan_code)
    /\ quantized_flat' = remove_padding(quantized_blocks', block_size, Len(tensor))
    /\ quantized_tensor' = QuantizedTensor(quantized_flat', original_shape, bits)
    /\ pc' = "done"
    /\ UNCHANGED <<tensor, tensor_exp, original_shape, original_dtype, block_size, bits, unpacked,
                   raised, mvars, pvars>>

\* quantize_blockwise(tensor, block_size, bits) ending in an exception: nothing
\* is returned
QuantizeBlockwiseRaises ==
    /\ pc = "start"
    /\ quantize_error(block_size, bits) # "none"
    /\ raised' = quantize_error(block_size, bits)
    /\ pc' = "raised"
    /\ UNCHANGED <<tensor, tensor_exp, original_shape, original_dtype, block_size, bits,
                   quantized_blocks, scales, quantized_flat, quantized_tensor,
                   unpacked, mvars, pvars>>

Next == QuantizeBlockwise \/ QuantizeBlockwiseRaises

Spec == Init /\ [][Next]_vars

\* ------------------------------------------- buffers of other element types
\* element types a loaded tensor may have (line 232 lets uint16 through)
DTypes == {"float16", "float64", "uint16"}

\* float64 values, in units of 2^-25, that are not float32 values, and two
\* that are
F64Values ==
    {2^F32Prec + 1, 2^F32Prec + 3, -(2^F32Prec + 1), 2^(F32Prec - 1), 0}

\* uint16 values: the raw bits of the BFloat16 numbers 1.0, 2.0, -1.0, 0.0, 0.5
U16Values == {16256, 16384, 49024, 0, 16128}

\* float16 values, in halves
F16Values == {-2, -1, 0, 1, 3}

DtypeInit ==
    \/ /\ original_dtype = "float64"
       /\ tensor \in SeqsUpTo(F64Values, MaxCast)
       /\ tensor_exp = -25
    \/ /\ original_dtype = "uint16"
       /\ tensor \in SeqsUpTo(U16Values, MaxCast)
       /\ tensor_exp = 0
    \/ /\ original_dtype = "float16"
       /\ tensor \in SeqsUpTo(F16Values, MaxCast)
       /\ tensor_exp = -1

InitDtype ==
    /\ pc = "start"
    /\ DtypeInit
    /\ original_shape = <<Len(tensor)>>
    /\ bits \in {4, 8}
    /\ block_size \in {1, 2}
    /\ quantized_blocks = <<>>
    /\ scales = <<>>
    /\ quantized_flat = <<>>
    /\ quantized_tensor = [data |-> <<>>, shape |-> <<>>]
    /\ unpacked = <<>>
    /\ raised = "none"
    /\ ModelIdle
    /\ PolicyIdle

NextDtype == QuantizeBlockwise

SpecDtype == InitDtype /\ [][NextDtype]_vars

\* ------------------------------------- buffers at the top of the float32 range
\* magnitudes, in units of 2^F32MaxExp, up to the largest finite float32
HugeValues ==
    {0, 2^F32Prec - 1, -(2^F32Prec - 1), 2^F32Prec - 2, 2^(F32Prec - 1),
     -(2^(F32Prec - 1) + 1)}

\* huge family: one block of one or two elements near the largest float32
HugeInit ==
    /\ tensor \in [1..1 -> HugeValues] \cup [1..2 -> HugeValues]
    /\ tensor_exp = F32MaxExp
    /\ original_shape = <<Len(tensor)>>
    /\ block_size = 2

\* the float32 families of Init together with the huge family
InitRange ==
    /\ pc = "start"
    /\ bits \in {4, 8}
    /\ BlockInit \/ PairInit \/ TinyInit \/ HugeInit
    /\ quantized_blocks = <<>>
    /\ scales = <<>>
    /\ quantized_flat = <<>>
    /\ quantized_tensor = [data |-> <<>>, shape |-> <<>>]
    /\ unpacked = <<>>
    /\ original_dtype = "float32"
    /\ raised = "none"
    /\ ModelIdle
    /\ PolicyIdle

NextRange == QuantizeBlockwise

SpecRange == InitRange /\ [][NextRange]_vars

\* ------------------------------------------- the packer on free code streams
Codes4 == (-8)..7

InitPack ==
    /\ pc = "codes"
    /\ quantized_flat \in SeqsUpTo(Codes4, MaxCodes)
    /\ bits = 4
    /\ tensor = <<>>
    /\ tensor_exp = -1
    /\ original_shape = <<0>>
    /\ block_size = 1
    /\ quantized_blocks = <<>>
    /\ scales = <<>>
    /\ quantized_tensor = [data |-> <<>>, shape |-> <<>>]
    /\ unpacked = <<>>
    /\ original_dtype = "float32"
    /\ raised = "none"
    /\ ModelIdle
    /\ PolicyIdle

PackCodes ==
    /\ pc = "codes"
    /\ quantized_tensor' = QuantizedTensor(quantized_flat, original_shape, bits)
    /\ pc' = "packed"
    /\ UNCHANGED <<tensor, tensor_exp, original_shape, original_dtype, block_size, bits, quantized_blocks,
                   scales, quantized_flat, unpacked, raised, mvars, pvars>>

UnpackCodes ==
    /\ pc = "packed"
    /\ unpacked' = Unpack(quantized_tensor.data)
    /\ pc' = "unpacked"
    /\ UNCHANGED <<tensor, tensor_exp, original_shape, original_dtype, block_size, bits, quantized_blocks,
                   scales, quantized_flat, quantized_tensor, raised, mvars, pvars>>

NextPack == PackCodes \/ UnpackCodes

SpecPack == InitPack /\ [][NextPack]_vars


\* ---------------------------------------------------------- tensor names
\* the substrings the policy looks for (lines 173-185)
EMBED == <<"e", "m", "b", "e", "d">>

NORM == <<"n", "o", "r", "m">>

LN == <<"l", "n">>

BIAS == <<"b", "i", "a", "s">>

WEIGHT == <<"w", "e", "i", "g", "h", "t">>

\* other name pieces: a neutral one, upper-case spellings, and one that
\* forms "ln" across a boundary ("final" + "ln")
F_X == <<"x", ".">>

F_UBIAS == <<"B", "I", "A", "S">>

F_CWEIGHT == <<"W", "e", "i", "g", "h", "t">>

F_FINA == <<"f", "i", "n", "a", "l">>

\* ------------------------------------------------- should_quantize_tensor
\* the ASCII letters str.lower() maps
UpperChars == <<"A", "B", "C", "D", "E", "F", "G", "H", "I", "J", "K", "L", "M",
                "N", "O", "P", "Q", "R", "S", "T", "U", "V", "W", "X", "Y", "Z">>

LowerChars == <<"a", "b", "c", "d", "e", "f", "g", "h", "i", "j", "k", "l", "m",
                "n", "o", "p", "q", "r", "s", "t", "u", "v", "w", "x", "y", "z">>

lower_char(c) ==
    IF \E i \in 1..Len(UpperChars) : UpperChars[i] = c
    THEN LowerChars[CHOOSE i \in 1..Len(UpperChars) : UpperChars[i] = c]
    ELSE c

\* the name compared as it is spelled
name_lower_identity(nm) == nm

\* line 166: name.lower()
name_lower(nm) == [i \in 1..Len(nm) |-> lower_char(nm[i])]

\* Python's  pat in s  on strings
Contains(pat, s) ==
    \E k \in 0..(Len(s) - Len(pat)) : SubSeq(s, k + 1, k + Len(pat)) = pat

\* line 169: tensors below this element count are kept
SmallTensorLimit == 512

\* line 189: tensors above this element count are quantized by default
LargeTensorLimit == 10000

\* the weight test ahead of the bias test
should_quantize_weight_first(nm, size) ==
    LET l == name_lower(nm)
    IN IF size < SmallTensorLimit THEN FALSE
       ELSE IF Contains(EMBED, l) THEN FALSE
       ELSE IF Contains(NORM, l) \/ Contains(LN, l) THEN FALSE
       ELSE IF Contains(WEIGHT, l) THEN TRUE
       ELSE IF Contains(BIAS, l) THEN FALSE
       ELSE IF size > LargeTensorLimit THEN TRUE
       ELSE FALSE

\* lines 147-192: should_quantize_tensor(name, tensor), size = tensor.size
should_quantize_tensor(nm, size) ==
    LET l == name_lower(nm)
    IN IF size < SmallTensorLimit THEN FALSE
       ELSE IF Contains(EMBED, l) THEN FALSE
       ELSE IF Contains(NORM, l) \/ Contains(LN, l) THEN FALSE
       ELSE IF Contains(BIAS, l) THEN FALSE
       ELSE IF Contains(WEIGHT, l) THEN TRUE
       ELSE IF size > LargeTensorLimit THEN TRUE
       ELSE FALSE

\* a Python bool as the policy variable holds it
BoolStr(b) == IF b THEN "True" ELSE "False"

\* pieces tensor names are assembled from
NameFragments ==
    {EMBED, NORM, LN, BIAS, WEIGHT, F_X, F_UBIAS, F_CWEIGHT, F_FINA}

RECURSIVE NamesOf(_)
NamesOf(k) ==
    IF k = 0 THEN {<<>>}
    ELSE NamesOf(k - 1) \cup {a \o f : a \in NamesOf(k - 1), f \in NameFragments}

PolicyNames == NamesOf(MaxFragments)

PolicySizes ==
    {0, SmallTensorLimit - 1, SmallTensorLimit, 2000, LargeTensorLimit,
     LargeTensorLimit + 1}

\* quantize_blockwise is not running
QuantIdle ==
    /\ tensor = <<>>
    /\ tensor_exp = -1
    /\ original_shape = <<0>>
    /\ original_dtype = "float32"
    /\ quantized_blocks = <<>>
    /\ scales = <<>>
    /\ quantized_flat = <<>>
    /\ quantized_tensor = [data |-> <<>>, shape |-> <<>>]
    /\ unpacked = <<>>

InitPolicy ==
    /\ pc = "policy"
    /\ name \in PolicyNames
    /\ tensor_size \in PolicySizes
    /\ decision = "none"
    /\ block_size = 128
    /\ bits = 4
    /\ raised = "none"
    /\ QuantIdle
    /\ ModelIdle

\* one call of should_quantize_tensor(name, tensor)
ShouldQuantizeTensor ==
    /\ pc = "policy"
    /\ decision' = BoolStr(should_quantize_tensor(name, tensor_size))
    /\ pc' = "decided"
    /\ UNCHANGED <<tensor, tensor_exp, original_shape, original_dtype, block_size, bits, quantized_blocks,
                   scales, quantized_flat, quantized_tensor, unpacked, raised, mvars,
                   name, tensor_size>>

NextPolicy == ShouldQuantizeTensor

SpecPolicy == InitPolicy /\ [][NextPolicy]_vars

\* ---------------------------------------------------------- quantize_model
\* line 265: the suffix of the key that holds a tensor's scales
SCALES_SUFFIX == <<".", "_", "_", "s", "c", "a", "l", "e", "s", "_", "_">>

\* names of the tensors a model file may hold
N_WEIGHT == <<"a", ".", "w", "e", "i", "g", "h", "t">>

N_WEIGHT_SCALES == N_WEIGHT \o SCALES_SUFFIX

N_BIAS == <<"b", ".", "b", "i", "a", "s">>

ModelNames == {N_WEIGHT, N_WEIGHT_SCALES, N_BIAS}

\* bytes per float32 element (input tensors, and scales: line 102)
F32Bytes == 4

\* line 195: the default block size
DefaultBlockSize == 128

\* a float32 tensor of n elements, in halves
ModelData(n) == [j \in 1..n |-> (j % (MaxWide + 1)) - (MaxWide \div 2)]

ModelTensors ==
    {[shape |-> <<n>>, data |-> ModelData(n)] : n \in {SmallSize, SmallTensorLimit}}

\* the dicts a reader may deliver: at most MaxTensors named tensors
ModelInputs ==
    UNION {[S -> ModelTensors] :
             S \in {T \in SUBSET ModelNames : Cardinality(T) <= MaxTensors}}

\* the orders in which a dict with key set S may be iterated
Orders(S) ==
    {f \in [1..Cardinality(S) -> S] :
        \A i, j \in 1..Cardinality(S) : i # j => f[i] # f[j]}

\* d[k] = v on a dict
Put(d, k, v) == [x \in (DOMAIN d) \cup {k} |-> IF x = k THEN v ELSE d[x]]

\* tensor.nbytes of a float32 tensor
tensor_nbytes(t) == F32Bytes * Len(t.data)

\* q_tensor.nbytes: one byte per entry (uint8 packed bytes or int8 codes)
q_nbytes(q) == Len(q.data)

\* scales.nbytes
scales_nbytes(sc) == F32Bytes * Len(sc.data)

\* lines 240-247
stats_init(n) ==
    [total_tensors |-> n, quantized_tensors |-> 0, kept_original |-> 0,
     original_size_mb |-> 0, quantized_size_mb |-> 0, scales_size_mb |-> 0]

\* line 261: q_tensor of quantize_blockwise(tensor, block_size, bits)
q_tensor_of(t, ex, B, b, nan_code) ==
    QuantizedTensor(remove_padding(QuantizedBlocks(t.data, ex, B, b, nan_code),
                                   B, Len(t.data)),
                    t.shape, b)

\* line 261: scales of quantize_blockwise(tensor, block_size, bits)
scales_of(t, ex, B, b) ==
    [data |-> Scales(t.data, ex, B, b), shape |-> <<n_blocks(Len(t.data), B)>>]

\* lines 264-265
store_quantized(out, nm, q, sc) == Put(Put(out, nm, q), nm \o SCALES_SUFFIX, sc)

\* line 277
store_kept(out, nm, t) == Put(out, nm, t)

\* the scale bytes added to the packed-data total
quantize_stats_mixed(st, t, q, sc) ==
    [st EXCEPT !.original_size_mb = @ + tensor_nbytes(t),
               !.quantized_tensors = @ + 1,
               !.quantized_size_mb = @ + q_nbytes(q) + scales_nbytes(sc)]

\* lines 254, 268-270
quantize_stats(st, t, q, sc) ==
    [st EXCEPT !.original_size_mb = @ + tensor_nbytes(t),
               !.quantized_tensors = @ + 1,
               !.quantized_size_mb = @ + q_nbytes(q),
               !.scales_size_mb = @ + scales_nbytes(sc)]

\* a kept tensor left out of the kept_original counter
keep_stats_no_count(st, t) ==
    [st EXCEPT !.original_size_mb = @ + tensor_nbytes(t),
               !.quantized_size_mb = @ + tensor_nbytes(t)]

\* lines 254, 278-279
keep_stats(st, t) ==
    [st EXCEPT !.original_size_mb = @ + tensor_nbytes(t),
               !.kept_original = @ + 1,
               !.quantized_size_mb = @ + tensor_nbytes(t)]

\* the ratio taken over the packed-data total alone
final_stats_no_scales(st) ==
    [total_tensors |-> st.total_tensors,
     quantized_tensors |-> st.quantized_tensors,
     kept_original |-> st.kept_original,
     original_size_mb |-> st.original_size_mb,
     quantized_size_mb |-> st.quantized_size_mb,
     scales_size_mb |-> st.scales_size_mb,
     total_size_mb |-> st.quantized_size_mb + st.scales_size_mb,
     compression_ratio |-> [num |-> st.original_size_mb,
                            den |-> st.quantized_size_mb],
     size_reduction_percent |->
        [num |-> 100 * (st.original_size_mb
                          - (st.quantized_size_mb + st.scales_size_mb)),
         den |-> st.original_size_mb]]

\* lines 291-297; a quotient num / den is kept as the pair [num, den]
final_stats(st) ==
    [total_tensors |-> st.total_tensors,
     quantized_tensors |-> st.quantized_tensors,
     kept_original |-> st.kept_original,
     original_size_mb |-> st.original_size_mb,
     quantized_size_mb |-> st.quantized_size_mb,
     scales_size_mb |-> st.scales_size_mb,
     total_size_mb |-> st.quantized_size_mb + st.scales_size_mb,
     compression_ratio |-> [num |-> st.original_size_mb,
                            den |-> st.quantized_size_mb + st.scales_size_mb],
     size_reduction_percent |->
        [num |-> 100 * (st.original_size_mb
                          - (st.quantized_size_mb + st.scales_size_mb)),
         den |-> st.original_size_mb]]

\* the state after the tensors are loaded (lines 213-250), the reader having
\* delivered them in some order
InitModel ==
    /\ pc = "loop"
    /\ tensors \in ModelInputs
    /\ order \in Orders(DOMAIN tensors)
    /\ idx = 1
    /\ quantized_tensors = <<>>
    /\ stats = stats_init(Len(order))
    /\ writer_calls = 0
    /\ saved = <<>>
    /\ bits \in BitsChoices
    /\ block_size \in BadBlockSizes \cup {DefaultBlockSize}
    /\ raised = "none"
    /\ QuantIdle
    /\ PolicyIdle

\* the writer called before the loop has ended
loop_done_early == idx >= 1

\* line 252: the for loop has run out of items
loop_done == idx > Len(order)

\* one iteration of the loop on a tensor the policy keeps (lines 253-256, 277-279)
ProcessKeep ==
    /\ pc = "loop" /\ ~loop_done
    /\ LET nm == order[idx]
           t == tensors[nm]
       IN /\ ~should_quantize_tensor(nm, Len(t.data))
          /\ quantized_tensors' = store_kept(quantized_tensors, nm, t)
          /\ stats' = keep_stats(stats, t)
    /\ idx' = idx + 1
    /\ UNCHANGED <<pc, tensor, tensor_exp, original_shape, original_dtype, block_size, bits,
                   quantized_blocks, scales, quantized_flat, quantized_tensor,
                   unpacked, raised, tensors, order, writer_calls, saved, pvars>>

\* one iteration on a tensor the policy quantizes (lines 253-270)
ProcessQuantize ==
    /\ pc = "loop" /\ ~loop_done
    /\ quantize_error(block_size, bits) = "none"
    /\ LET nm == order[idx]
           t == tensors[nm]
       IN /\ should_quantize_tensor(nm, Len(t.data))
          /\ \E nan_code \in NanCast :
               LET q == q_tensor_of(t, tensor_exp, block_size, bits, nan_code)
                   sc == scales_of(t, tensor_exp, block_size, bits)
               IN /\ quantized_tensors' = store_quantized(quantized_tensors, nm, q, sc)
                  /\ stats' = quantize_stats(stats, t, q, sc)
    /\ idx' = idx + 1
    /\ UNCHANGED <<pc, tensor, tensor_exp, original_shape, original_dtype, block_size, bits,
                   quantized_blocks, scales, quantized_flat, quantized_tensor,
                   unpacked, raised, tensors, order, writer_calls, saved, pvars>>

\* an iteration in which quantize_blockwise raises: quantize_model ends with
\* that exception (line 254 has run, line 261 raises)
ProcessRaises ==
    /\ pc = "loop" /\ ~loop_done
    /\ quantize_error(block_size, bits) # "none"
    /\ should_quantize_tensor(order[idx], Len(tensors[order[idx]].data))
    /\ stats' = [stats EXCEPT !.original_size_mb =
                                  @ + tensor_nbytes(tensors[order[idx]])]
    /\ raised' = quantize_error(block_size, bits)
    /\ pc' = "raised"
    /\ UNCHANGED <<tensor, tensor_exp, original_shape, original_dtype, block_size, bits,
                   quantized_blocks, scales, quantized_flat, quantized_tensor,
                   unpacked, tensors, order, idx, quantized_tensors, writer_calls,
                   saved, pvars>>

\* line 288: save_file(quantized_tensors, output_path) persists the mapping
SaveFile ==
    /\ pc = "loop" /\ loop_done
    /\ writer_calls' = writer_calls + 1
    /\ saved' = quantized_tensors
    /\ pc' = "saved"
    /\ UNCHANGED <<tensor, tensor_exp, original_shape, original_dtype, block_size, bits,
                   quantized_blocks, scales, quantized_flat, quantized_tensor,
                   unpacked, raised, tensors, order, idx, quantized_tensors, stats,
                   pvars>>

\* line 288: save_file fails; nothing is persisted and the exception leaves
\* quantize_model
SaveFileFails ==
    /\ pc = "loop" /\ loop_done
    /\ writer_calls' = writer_calls + 1
    /\ raised' = "IOFailure"
    /\ pc' = "raised"
    /\ UNCHANGED <<tensor, tensor_exp, original_shape, original_dtype, block_size, bits,
                   quantized_blocks, scales, quantized_flat, quantized_tensor,
                   unpacked, tensors, order, idx, quantized_tensors, stats, saved,
                   pvars>>

\* lines 291-299: the final statistics are computed and returned
ReturnStats ==
    /\ pc = "saved"
    /\ stats.quantized_size_mb + stats.scales_size_mb # 0
    /\ stats' = final_stats(stats)
    /\ pc' = "returned"
    /\ UNCHANGED <<tensor, tensor_exp, original_shape, original_dtype, block_size, bits,
                   quantized_blocks, scales, quantized_flat, quantized_tensor,
                   unpacked, raised, tensors, order, idx, quantized_tensors,
                   writer_calls, saved, pvars>>

\* line 292: the division raises when the output holds no bytes
StatsRaises ==
    /\ pc = "saved"
    /\ stats.quantized_size_mb + stats.scales_size_mb = 0
    /\ raised' = "ZeroDivisionError"
    /\ pc' = "raised"
    /\ UNCHANGED <<tensor, tensor_exp, original_shape, original_dtype, block_size, bits,
                   quantized_blocks, scales, quantized_flat, quantized_tensor,
                   unpacked, tensors, order, idx, quantized_tensors, stats,
                   writer_calls, saved, pvars>>

NextModel ==
    \/ ProcessKeep
    \/ ProcessQuantize
    \/ ProcessRaises
    \/ SaveFile
    \/ SaveFileFails
    \/ ReturnStats
    \/ StatsRaises

SpecModel == InitModel /\ [][NextModel]_vars

\* ------------------------------------------------------------ claim helpers
Done == pc = "done"

\* block (1-based) that holds element j of the flattened tensor
BlockOf(j) == ((j - 1) \div block_size) + 1

\* positions of the tensor that fall in block i (the rest of the block is padding)
RealIdx(i) ==
    {j \in 1..Len(tensor) : (i - 1) * block_size < j /\ j <= i * block_size}

\* largest |element| of block i in halves, padding counted as 0
MaxAbsOf(i) == SetMax({Abs(tensor[j]) : j \in RealIdx(i)} \cup {0})

LevelMax(b) == 2^(b - 1) - 1

LevelMin(b) == -(2^(b - 1))

\* the real number |x| / s (s # 0) as the mixed fraction q + r / b, by exact
\* long division
ExactQuot(h, s) ==
    ShiftDiv(Abs(h) \div s.m, Abs(h) % s.m, s.m, tensor_exp - s.e)

\* the clip bound on the side of x
HiLevel(h, b) == IF h > 0 THEN LevelMax(b) ELSE -LevelMin(b)

\* 2^23 * d <= q * b + r, for 0 <= d, q < 2^8 and r < b < 2^24
\* (both sides divided by 2^12, the product split at bit 12)
RelErrCovers(d, Q) ==
    d * 2048 <= Q.q * (Q.b \div 4096) + ((Q.q * (Q.b % 4096) + Q.r) \div 4096)

\* |c * s - clip(x, LevelMin * s, LevelMax * s)| <= s / 2 + slack * |x| * 2^-24
\* over the reals (slack 0 or 1)
WithinHalfScale(c, h, s, b, slack) ==
    IF s.m = 0 THEN TRUE
    ELSE IF h = 0 THEN c = 0
    ELSE LET Q == ExactQuot(h, s)
             cc == Sign(h) * c
             hi == HiLevel(h, b)
             d == 2 * Abs((cc - Q.q) * Q.b - Q.r) - Q.b
         IN IF Q.q > hi \/ (Q.q = hi /\ Q.r > 0) THEN cc = hi
            ELSE /\ Abs(cc - Q.q) <= 1
                 /\ \/ d <= 0
                    \/ slack = 1 /\ d < 256 /\ RelErrCovers(d, Q)

\* C1 (as stated): for every element, |code * s - clip(x, levelMin * s,
\* levelMax * s)| <= s / 2 over the reals, s the scale of the element's block.
C1_HalfScaleOfInput ==
    Done => \A j \in 1..Len(tensor) :
        WithinHalfScale(quantized_flat[j], tensor[j], scales[BlockOf(j)], bits, 0)

\* C1 (amended): for every element, |code * s - clip(x, levelMin * s,
\* levelMax * s)| <= s / 2 + |x| * 2^-24: the bound holds up to the rounding
\* error of the single-precision division x / s.
C1_HalfScaleUpToRounding ==
    Done => \A j \in 1..Len(tensor) :
        WithinHalfScale(quantized_flat[j], tensor[j], scales[BlockOf(j)], bits, 1)

\* a 4-bit run in which some quotient is not an integer, so rounding acted
C1_Witness ==
    /\ Done /\ bits = 4
    /\ \E j \in 1..Len(tensor) :
          /\ tensor[j] # 0
          /\ scales[BlockOf(j)].m # 0
          /\ ExactQuot(tensor[j], scales[BlockOf(j)]).r > 0
          /\ quantized_flat[j] \notin {0, 7, -7}

\* C2: every code of every block, padding positions included, and every code
\* of the returned stream lies in [-2^(bits-1), 2^(bits-1) - 1].
C2_CodesInRange ==
    Done =>
      /\ \A i \in 1..Len(quantized_blocks) : \A j \in 1..Len(quantized_blocks[i]) :
            quantized_blocks[i][j] \in LevelMin(bits)..LevelMax(bits)
      /\ \A j \in 1..Len(quantized_flat) :
            quantized_flat[j] \in LevelMin(bits)..LevelMax(bits)

\* a 4-bit run with a zero-padded tail block whose codes reach both +7 and -7
C2_Witness ==
    /\ Done /\ bits = 4
    /\ Len(tensor) % block_size # 0
    /\ \E j \in 1..Len(tensor) : quantized_flat[j] = 7
    /\ \E j \in 1..Len(tensor) : quantized_flat[j] = -7

\* C3: the scales array has exactly ceil(n / B) entries: the least k with
\* k * B >= n.
C3_NumScales ==
    Done =>
      /\ Len(scales) * block_size >= Len(tensor)
      /\ (Len(scales) - 1) * block_size < Len(tensor) \/ Len(scales) = 0
      /\ Len(scales) = Len(quantized_blocks)

\* a run with a partial last block after at least one full block
C3_Witness ==
    /\ Done
    /\ Len(tensor) > block_size
    /\ Len(tensor) % block_size # 0
    /\ Len(scales) = 2

\* s is a float32 (normal, or subnormal at exponent F32MinExp)
IsF32(s) ==
    \/ 2^(F32Prec - 1) <= s.m /\ s.m < 2^F32Prec /\ s.e >= F32MinExp
    \/ 0 <= s.m /\ s.m < 2^(F32Prec - 1) /\ s.e = F32MinExp

\* s is within half a unit in its last place of (M * 2^tensor_exp) / L over the
\* reals: |2 * s.m * L - M * 2^(tensor_exp - s.e + 1)| <= L (for a significand
\* of more than 12 bits the products are split at bit 12)
IsNearest(s, M, L) ==
    LET k == tensor_exp - s.e
        nh == s.m \div 4096
        nl == s.m % 4096
        h == 2 * nh * L - M * 2^(k - 11)
    IN IF s.m < 4096
       THEN k >= 0 /\ k < 12 /\ Abs(2 * s.m * L - M * 2^(k + 1)) <= L
       ELSE k >= 11 /\ Abs(h) <= 64 /\ Abs(h * 4096 + 2 * nl * L) <= L

\* C4: each block's stored scale is maxAbs / levelMax (in single precision)
\* when maxAbs > 0 and 1.0 otherwise, padding counted as 0; it is never zero.
C4_ScaleFormula ==
    Done => \A i \in 1..Len(scales) :
      /\ IsF32(scales[i])
      /\ IF MaxAbsOf(i) > 0
         THEN IsNearest(scales[i], MaxAbsOf(i), IF bits = 4 THEN 7 ELSE 127)
         ELSE scales[i] = [m |-> 8388608, e |-> -23]
      /\ scales[i].m # 0

\* C4, without its last clause: the scale is the float32 nearest to
\* maxAbs / levelMax when maxAbs > 0 and 1.0 otherwise
C4_ScaleIsQuotient ==
    Done => \A i \in 1..Len(scales) :
      /\ IsF32(scales[i])
      /\ IF MaxAbsOf(i) > 0
         THEN IsNearest(scales[i], MaxAbsOf(i), IF bits = 4 THEN 7 ELSE 127)
         ELSE scales[i] = [m |-> 8388608, e |-> -23]

\* a run with an all-zero block next to a block whose scale is not 1.0
C4_Witness ==
    /\ Done
    /\ \E i \in 1..Len(scales) : MaxAbsOf(i) = 0
    /\ \E i \in 1..Len(scales) : MaxAbsOf(i) > 0 /\ scales[i] # F32One

\* C5: a block whose elements are all zero has scale 1.0, all codes 0, and
\* every dequantized value code * scale is 0.
C5_ZeroBlock ==
    Done => \A i \in 1..Len(scales) :
      (\A j \in RealIdx(i) : tensor[j] = 0) =>
        /\ scales[i] = [m |-> 8388608, e |-> -23]
        /\ \A k \in 1..block_size : quantized_blocks[i][k] = 0
        /\ \A j \in RealIdx(i) : quantized_flat[j] * scales[i].m = 0

\* an 8-bit run on a non-empty all-zero tensor shorter than one block
C5_Witness ==
    /\ Done /\ bits = 8
    /\ Len(tensor) >= 2 /\ block_size > Len(tensor)
    /\ \A j \in 1..Len(tensor) : tensor[j] = 0
    /\ Len(scales) = 1

\* C6 (as stated): a block's scale is 1.0 if and only if the block is all-zero.
C6_OneIffZero ==
    Done => \A i \in 1..Len(scales) :
      (scales[i] = [m |-> 8388608, e |-> -23]) <=> (MaxAbsOf(i) = 0)

\* C6 (amended): a block's scale is 1.0 if and only if the block is all-zero
\* or its maxAbs equals levelMax (7.0 for bits=4, 127.0 for bits=8); an
\* all-zero block has all codes 0.
C6_OneIffZeroOrLevelMax ==
    Done => \A i \in 1..Len(scales) :
      /\ (scales[i] = [m |-> 8388608, e |-> -23]) <=>
            (MaxAbsOf(i) = 0 \/ (tensor_exp = -1 /\ MaxAbsOf(i) = 2 * LevelMax(bits)))
      /\ MaxAbsOf(i) = 0 => \A k \in 1..block_size : quantized_blocks[i][k] = 0

\* a block with a non-zero element and scale 1.0
C6_Witness ==
    /\ Done
    /\ \E i \in 1..Len(scales) : MaxAbsOf(i) > 0 /\ scales[i] = F32One

\* C7 (as stated): unpacking the packed form of any sequence of 4-bit codes
\* yields exactly the original sequence.
C7_RoundTripExact ==
    pc = "unpacked" => unpacked = quantized_flat

\* C7 (amended): unpacking the packed form of a sequence of n 4-bit codes yields
\* the original n codes, followed by one extra 0 code when n is odd.
C7_RoundTripPadded ==
    pc = "unpacked" =>
      /\ Len(unpacked) = Len(quantized_flat) + (Len(quantized_flat) % 2)
      /\ \A j \in 1..Len(quantized_flat) : unpacked[j] = quantized_flat[j]
      /\ \A j \in (Len(quantized_flat) + 1)..Len(unpacked) : unpacked[j] = 0

\* an odd-length sequence holding the code -8 and a positive code went round
C7_Witness ==
    /\ pc = "unpacked"
    /\ Len(quantized_flat) = 3
    /\ \E j \in 1..3 : quantized_flat[j] = -8
    /\ \E j \in 1..3 : quantized_flat[j] > 0

\* the low four bits of a signed 4-bit code, as an unsigned nibble
Nibble(c) == IF c < 0 THEN c + 16 ELSE c

\* entry j of the code stream, 0 past its end
CodeAt(j) == IF j <= Len(quantized_flat) THEN quantized_flat[j] ELSE 0

\* C8: in 4-bit mode the packed buffer has ceil(n / 2) bytes, byte i holds
\* code 2i in its high nibble and code 2i+1 in its low nibble (0-based), every
\* byte is in 0..255, and for odd n the low nibble of the last byte is 0.
C8_PackedLayout ==
    (Done /\ bits = 4) =>
      LET n == Len(tensor)
          data == quantized_tensor.data
      IN /\ 2 * Len(data) \in {n, n + 1}
         /\ quantized_tensor.shape = <<Len(data)>>
         /\ \A i \in 1..Len(data) :
               /\ data[i] \in 0..255
               /\ data[i] = 16 * Nibble(CodeAt(2 * i - 1)) + Nibble(CodeAt(2 * i))
         /\ n % 2 = 1 => data[Len(data)] % 16 = 0

\* a 4-bit run on an odd-length tensor with a negative and a positive code
C8_Witness ==
    /\ Done /\ bits = 4
    /\ Len(tensor) = 3
    /\ \E j \in 1..3 : quantized_flat[j] < 0
    /\ \E j \in 1..3 : quantized_flat[j] > 0

\* C9: in 8-bit mode the output is the code stream itself: n codes, entry j the
\* code of element j, no padding codes, in the tensor's original shape.
C9_Int8Identity ==
    (Done /\ bits = 8) =>
      /\ Len(quantized_tensor.data) = Len(tensor)
      /\ quantized_tensor.shape = original_shape
      /\ \A j \in 1..Len(tensor) :
            /\ quantized_tensor.data[j] =
                  quantized_blocks[BlockOf(j)][((j - 1) % block_size) + 1]
            /\ quantized_tensor.data[j] \in -128..127

\* an 8-bit run on a 2-D tensor with a padded tail block and a non-zero code
C9_Witness ==
    /\ Done /\ bits = 8
    /\ Len(original_shape) = 2
    /\ Len(tensor) % block_size # 0
    /\ Len(scales) = 2
    /\ \E j \in 1..Len(tensor) : quantized_flat[j] = -127

\* the single-precision quotient of element j by its block's scale is exactly
\* +-(k + 1/2) for an integer k >= 0 with k + 1 <= levelMax
IsTie(j) ==
    LET q == F32Quot(tensor[j], tensor_exp, scales[BlockOf(j)])
    IN /\ tensor[j] # 0
       /\ q.kind = "fin"
       /\ q.v.e < 0 /\ -q.v.e <= F32Prec
       /\ q.v.m % 2^(-q.v.e) = 2^(-q.v.e - 1)
       /\ q.v.m \div 2^(-q.v.e) < LevelMax(bits)

\* that k
TieFloor(j) ==
    LET q == F32Quot(tensor[j], tensor_exp, scales[BlockOf(j)])
    IN q.v.m \div 2^(-q.v.e)

\* C10 (as stated): ties are rounded away from zero: a quotient of exactly
\* k + 1/2 gives code k + 1 and a quotient of exactly -(k + 1/2) gives -(k + 1).
C10_TiesAwayFromZero ==
    Done => \A j \in 1..Len(tensor) :
      IsTie(j) => quantized_flat[j] = Sign(tensor[j]) * (TieFloor(j) + 1)

\* C10 (amended): ties are rounded to the even neighbour: a quotient of exactly
\* k + 1/2 gives code k + 1 when k is odd and k when k is even, and a quotient
\* of exactly -(k + 1/2) gives the negative of that.
C10_TiesToEven ==
    Done => \A j \in 1..Len(tensor) :
      IsTie(j) =>
        quantized_flat[j] =
          Sign(tensor[j]) * (IF TieFloor(j) % 2 = 1 THEN TieFloor(j) + 1 ELSE TieFloor(j))

\* a negative element whose quotient is exactly -(k + 1/2) with k even, k >= 2
C10_Witness ==
    /\ Done
    /\ \E j \in 1..Len(tensor) :
          IsTie(j) /\ TieFloor(j) >= 2 /\ TieFloor(j) % 2 = 0 /\ tensor[j] < 0

\* scale of a block made of the real elements of the last block alone
LastRealScale ==
    block_scale([j \in 1..Cardinality(RealIdx(Len(scales))) |->
                    tensor[(Len(scales) - 1) * block_size + j]],
                tensor_exp, bits)

\* C11: padding positions of the last block count as 0 and are discarded: the
\* code stream has exactly n entries, entry j the code of element j, and the
\* last block's scale is the scale of its real elements alone.
C11_PaddingDiscarded ==
    Done =>
      /\ Len(quantized_flat) = Len(tensor)
      /\ \A j \in 1..Len(tensor) :
            quantized_flat[j] = quantized_blocks[BlockOf(j)][((j - 1) % block_size) + 1]
      /\ Len(scales) > 0 => scales[Len(scales)] = LastRealScale

\* a run whose last block is partly padding and holds a non-zero real element
C11_Witness ==
    /\ Done
    /\ Len(scales) = 2
    /\ Len(tensor) % block_size # 0
    /\ \E j \in RealIdx(2) : tensor[j] # 0 /\ quantized_flat[j] # 0

\* C12: a call with block_size < 1 fails with the configuration error (the
\* ValueError that rejects an unsupported bit width) and produces no blocks,
\* scales or codes.
C12_BlockSizeRejected ==
    (pc # "start" /\ block_size < 1) =>
      /\ pc = "raised" /\ raised = "ValueError"
      /\ quantized_blocks = <<>> /\ scales = <<>> /\ quantized_flat = <<>>

\* rule k of the selection table applies to (nm, size)
RuleMatches(k, nm, size) ==
    CASE k = 1 -> size < 512
      [] k = 2 -> Contains(EMBED, nm)
      [] k = 3 -> Contains(NORM, nm) \/ Contains(LN, nm)
      [] k = 4 -> Contains(BIAS, nm)
      [] k = 5 -> Contains(WEIGHT, nm)
      [] k = 6 -> size > 10000
      [] k = 7 -> TRUE

\* rules 5 and 6 say quantize, the others keep
RuleQuantizes(k) == k \in {5, 6}

\* first match wins
TableVerdict(nm, size) ==
    RuleQuantizes(CHOOSE k \in 1..7 :
        RuleMatches(k, nm, size) /\ \A j \in 1..(k - 1) : ~RuleMatches(j, nm, size))

\* C14 (as stated): the policy equals the ordered rule table evaluated on the
\* name: count < 512 keep; contains "embed" keep; "norm" or "ln" keep; "bias"
\* keep; "weight" quantize; count > 10000 quantize; otherwise keep.
C14_RuleTableOnName ==
    pc = "decided" => decision = BoolStr(TableVerdict(name, tensor_size))

\* C14 (amended): the policy equals the ordered rule table evaluated on the
\* lower-cased name (the substring tests ignore case); a name containing
\* "bias" is kept even when it also contains "weight" or has more than 10000
\* elements.
C14_RuleTableOnLowerName ==
    pc = "decided" =>
      /\ decision = BoolStr(TableVerdict(name_lower(name), tensor_size))
      /\ Contains(BIAS, name_lower(name)) => decision = "False"

\* a name spelling "BIAS" in upper case together with "weight", more than
\* 10000 elements, kept
C14_Witness ==
    /\ pc = "decided"
    /\ Contains(F_UBIAS, name) /\ Contains(WEIGHT, name)
    /\ tensor_size > 10000
    /\ decision = "False"

\* the configuration is one the spec calls invalid
InvalidConfiguration == bits \notin {4, 8} \/ block_size < 1

\* C13: under an invalid configuration (bits not in {4,8} or blockSize < 1)
\* quantize_model touches no tensor: the loop never advances, the output set
\* stays empty and the writer is never invoked.
C13_RejectedBeforeAnyTensor ==
    InvalidConfiguration =>
      /\ idx = 1
      /\ quantized_tensors = <<>>
      /\ writer_calls = 0

\* the policy's verdict for input tensor nm
Quantizes(nm) == should_quantize_tensor(nm, Len(tensors[nm].data))

\* the writer has persisted the output set
Written == pc \in {"saved", "returned"}

\* C15: every tensor the policy keeps is in the written output set under its
\* own name with its original buffer unchanged.
C15_KeptUnchanged ==
    Written => \A nm \in DOMAIN tensors :
      ~Quantizes(nm) => nm \in DOMAIN saved /\ saved[nm] = tensors[nm]

\* C16: for every tensor the policy quantizes, the written output set holds
\* its packed buffer under its name and its scale array under
\* name + ".__scales__".
C16_PackedAndScalesStored ==
    Written => \A nm \in DOMAIN tensors :
      Quantizes(nm) =>
        /\ nm \in DOMAIN saved
        /\ (nm \o SCALES_SUFFIX) \in DOMAIN saved
        /\ \E nan_code \in NanCast :
              saved[nm] = q_tensor_of(tensors[nm], tensor_exp, block_size, bits, nan_code)
        /\ saved[nm \o SCALES_SUFFIX] = scales_of(tensors[nm], tensor_exp, block_size, bits)

\* bytes of input tensor nm
OriginalBytes(nm) == 4 * Len(tensors[nm].data)

\* bytes of the packed buffer of nm (two codes per byte for 4 bits, one code
\* per byte for 8), 0 for a kept tensor
PackedBytes(nm) ==
    IF ~Quantizes(nm) THEN 0
    ELSE IF bits = 4 THEN (Len(tensors[nm].data) + 1) \div 2
    ELSE Len(tensors[nm].data)

\* bytes of the scale array of nm (one float32 per block), 0 for a kept tensor
ScaleBytes(nm) ==
    IF ~Quantizes(nm) THEN 0
    ELSE 4 * ((Len(tensors[nm].data) + block_size - 1) \div block_size)

\* bytes of nm when it is kept, 0 when it is quantized
KeptBytes(nm) == IF Quantizes(nm) THEN 0 ELSE OriginalBytes(nm)

\* sums over the first k tensors of the iteration order
RECURSIVE SumOriginal(_)
SumOriginal(k) == IF k = 0 THEN 0 ELSE OriginalBytes(order[k]) + SumOriginal(k - 1)

RECURSIVE SumPacked(_)
SumPacked(k) == IF k = 0 THEN 0 ELSE PackedBytes(order[k]) + SumPacked(k - 1)

RECURSIVE SumScale(_)
SumScale(k) == IF k = 0 THEN 0 ELSE ScaleBytes(order[k]) + SumScale(k - 1)

RECURSIVE SumKept(_)
SumKept(k) == IF k = 0 THEN 0 ELSE KeptBytes(order[k]) + SumKept(k - 1)

\* C17 (as stated): the reported compression ratio equals totalOriginalBytes /
\* (totalPackedBytes + totalScaleBytes), the packed total taken over the
\* quantized tensors.
C17_RatioOverPackedAndScales ==
    pc = "returned" =>
      LET n == Len(order)
      IN /\ SumPacked(n) + SumScale(n) > 0
         /\ stats.compression_ratio.num * (SumPacked(n) + SumScale(n))
               = stats.compression_ratio.den * SumOriginal(n)

\* C17 (amended): the reported compression ratio equals totalOriginalBytes /
\* (totalPackedBytes + totalKeptBytes + totalScaleBytes): the bytes of the kept
\* tensors are part of the denominator.
C17_RatioOverWholeOutput ==
    pc = "returned" =>
      LET n == Len(order)
      IN /\ SumPacked(n) + SumKept(n) + SumScale(n) > 0
         /\ stats.compression_ratio.den > 0
         /\ stats.compression_ratio.num * (SumPacked(n) + SumKept(n) + SumScale(n))
               = stats.compression_ratio.den * SumOriginal(n)

\* statistics returned for a model with a quantized and a non-empty kept tensor
C17_Witness ==
    /\ pc = "returned"
    /\ \E nm \in DOMAIN tensors : Quantizes(nm)
    /\ \E nm \in DOMAIN tensors : ~Quantizes(nm) /\ OriginalBytes(nm) > 0

\* the loop is running or has ended normally
InLoop == pc \in {"loop", "saved", "returned"}

\* C18 (as stated): kept bytes never enter the packed-data total: after any
\* sequence of processed tensors the packed total is the sum of the packed
\* buffers of the quantized tensors only, and the scale total is kept apart.
C18_PackedTotalQuantizedOnly ==
    InLoop =>
      /\ stats.quantized_size_mb = SumPacked(idx - 1)
      /\ stats.scales_size_mb = SumScale(idx - 1)

\* C18 (amended): there is no unquantized total: kept bytes are added to the
\* packed-data total, which after any sequence of processed tensors is the sum
\* of the packed buffers of the quantized tensors plus the bytes of the kept
\* tensors; scale bytes are accumulated in a total of their own.
C18_PackedTotalWithKept ==
    InLoop =>
      /\ stats.quantized_size_mb = SumPacked(idx - 1) + SumKept(idx - 1)
      /\ stats.scales_size_mb = SumScale(idx - 1)
      /\ stats.original_size_mb = SumOriginal(idx - 1)
      /\ stats.quantized_tensors + stats.kept_original = idx - 1

\* the loop has processed a quantized and a non-empty kept tensor
C18_Witness ==
    /\ pc = "loop"
    /\ \E i \in 1..(idx - 1) : Quantizes(order[i])
    /\ \E i \in 1..(idx - 1) : ~Quantizes(order[i]) /\ OriginalBytes(order[i]) > 0
    /\ stats.scales_size_mb > 0

\* the output dict after the first k tensors of order p (lines 252-279)
RECURSIVE OutputAfter(_, _, _)
OutputAfter(p, k, nan_code) ==
    IF k = 0 THEN <<>>
    ELSE LET out == OutputAfter(p, k - 1, nan_code)
             nm == p[k]
             t == tensors[nm]
         IN IF Quantizes(nm)
            THEN store_quantized(out, nm,
                                 q_tensor_of(t, tensor_exp, block_size, bits, nan_code),
                                 scales_of(t, tensor_exp, block_size, bits))
            ELSE store_kept(out, nm, t)

\* C19: the written output set is the same for every order in which the input
\* tensors are iterated.
C19_OrderIndependent ==
    Written => \A p \in Orders(DOMAIN tensors) :
      \E nan_code \in NanCast : OutputAfter(p, Len(p), nan_code) = saved

\* the writer is called at most once, only after the whole loop, with the
\* complete output set; a failed quantization leaves it uncalled
WriterDiscipline ==
    /\ writer_calls <= 1
    /\ writer_calls = 1 => idx = Len(order) + 1
    /\ Written => /\ writer_calls = 1
                  /\ saved = quantized_tensors
                  /\ \A nm \in DOMAIN tensors : nm \in DOMAIN saved
    /\ (pc = "raised" /\ idx <= Len(order)) => writer_calls = 0 /\ saved = <<>>
    /\ (pc = "raised" /\ raised = "IOFailure") => writer_calls = 1 /\ saved = <<>>

\* once an exception has left quantize_model nothing more happens: no retry of
\* the writer, no statistics returned
FailureIsFinal ==
    pc = "raised" => pc' = "raised" /\ writer_calls' = writer_calls /\ saved' = saved

\* C20: fail-fast with no partial commit: the writer is invoked at most once,
\* only after every tensor has been processed, with the complete output set;
\* if a quantization fails the writer is never invoked; if the writer fails
\* the failure propagates without a retry and no statistics are returned.
C20_FailFast == [](WriterDiscipline) /\ [][FailureIsFinal]_vars

\* the writer has failed on the output of a model with a quantized and a kept
\* tensor
C20_Witness ==
    /\ pc = "raised" /\ raised = "IOFailure"
    /\ writer_calls = 1
    /\ \E nm \in DOMAIN tensors : Quantizes(nm)
    /\ \E nm \in DOMAIN tensors : ~Quantizes(nm)

\* the input of scenario A
ScenarioA ==
    /\ Len(tensor) = 256 /\ \A j \in 1..256 : tensor[j] = 7
    /\ tensor_exp = -1 /\ block_size = 128 /\ bits = 4

\* C21: 256 values all 3.5 with blockSize=128 and bits=4 give 2 blocks, each
\* with scale 0.5, every code 7, and a packed buffer of 128 bytes each 0x77.
C21_ScenarioA ==
    (Done /\ ScenarioA) =>
      /\ Len(quantized_blocks) = 2 /\ Len(scales) = 2
      /\ \A i \in 1..2 : scales[i] = [m |-> 8388608, e |-> -24]
      /\ Len(quantized_flat) = 256
      /\ \A j \in 1..256 : quantized_flat[j] = 7
      /\ Len(quantized_tensor.data) = 128
      /\ \A i \in 1..128 : quantized_tensor.data[i] = 119

\* scenario A has been quantized
C21_Witness ==
    /\ Done /\ ScenarioA
    /\ Len(quantized_tensor.data) = 128

\* values an element may be changed to, in units of 2^tensor_exp
AltValues == {0, 1, -MaxWide}

\* the buffer with element k replaced by v
Replaced(k, v) == [tensor EXCEPT ![k] = v]

\* C22: per-block independence: changing an element of block j leaves the
\* scale and the codes of every other block as they are (a change of several
\* elements of block j is a sequence of such changes).
C22_BlockIndependence ==
    Done => \E nan_code \in NanCast :
      /\ quantized_blocks =
            QuantizedBlocks(tensor, tensor_exp, block_size, bits, nan_code)
      /\ \A k \in 1..Len(tensor) : \A v \in AltValues \ {tensor[k]} :
            \A i \in 1..Len(scales) :
              i # BlockOf(k) =>
                LET blk == Block(Replaced(k, v), block_size, i)
                    sc == block_scale(blk, tensor_exp, bits)
                IN /\ sc = scales[i]
                   /\ quantize_block(blk, tensor_exp, sc, bits, nan_code)
                         = quantized_blocks[i]

\* a run over three blocks or more, the first and the last holding non-zero
\* elements
C22_Witness ==
    /\ Done
    /\ Len(scales) >= 3
    /\ MaxAbsOf(1) > 0 /\ MaxAbsOf(Len(scales)) > 0

\* element types that cannot be widened to float32 without loss (float64), or
\* whose values are raw bits of another type (uint16 holding BFloat16)
Unwidenable == original_dtype \in {"float64", "uint16"}

\* C23: a tensor whose element type cannot be losslessly widened to float32
\* makes quantize_blockwise end with an UnsupportedDtype error; it is never
\* converted and quantized.
C23_UnsupportedDtypeSurfaced ==
    (pc # "start" /\ Unwidenable) =>
      /\ pc = "raised" /\ raised = "UnsupportedDtype"
      /\ scales = <<>> /\ quantized_flat = <<>>

\* the scale is in the normal range of float32 (a full significand)
NormalScale(s) == s.m >= 2^(F32Prec - 1)

\* the float32 d is the number h * 2^tensor_exp (h >= 0)
DyEq(d, h) ==
    IF d.e >= tensor_exp THEN d.m * 2^(d.e - tensor_exp) = h
    ELSE d.m = h * 2^(tensor_exp - d.e)

\* maxAbs / levelMax of block i is a float32, so that line 113 divides
\* without rounding: maxAbs is a multiple of levelMax (or the block is zero)
ExactDivision(i) == MaxAbsOf(i) % LevelMax(bits) = 0

\* C24: under exact arithmetic levelMin is never produced: in every block
\* whose division maxAbs / levelMax is exact the scale is that quotient and
\* every code of the block lies in [-levelMax, levelMax].
C24_LevelMinUnreachable ==
    Done => \A i \in 1..Len(quantized_blocks) :
        ExactDivision(i) =>
            /\ MaxAbsOf(i) > 0 =>
                  DyEq(scales[i], MaxAbsOf(i) \div LevelMax(bits))
            /\ \A j \in 1..Len(quantized_blocks[i]) :
                  quantized_blocks[i][j] \in -LevelMax(bits)..LevelMax(bits)

\* a block with an exact non-zero scale holding a negative element of largest
\* magnitude, quantized to -levelMax, and a smaller non-zero element
C24_Witness ==
    /\ Done
    /\ \E j \in 1..Len(tensor) : \E k \in 1..Len(tensor) :
          /\ BlockOf(j) = BlockOf(k)
          /\ ExactDivision(BlockOf(j))
          /\ tensor[j] < 0
          /\ tensor[j] = -MaxAbsOf(BlockOf(j))
          /\ quantized_flat[j] = -LevelMax(bits)
          /\ quantized_flat[k] \notin {0, LevelMax(bits), -LevelMax(bits)}

\* the float32 infinity, written as the power of two that follows the
\* largest finite float32
F32Inf == [m |-> 2^(F32Prec - 1), e |-> F32MaxExp + 1]

IsInf(d) == d.e > F32MaxExp

\* spec 4.5, value = code * scale, for one code of magnitude c: the float32
\* product c * s, infinite when it rounds beyond the largest finite float32
F32Mul(c, s) ==
    LET p == c * s.m
        k == BitLen(p) - F32Prec
    IN IF p = 0 THEN [m |-> 0, e |-> F32MinExp]
       ELSE IF k <= 0 THEN [m |-> p, e |-> s.e]
       ELSE LET m == RoundEven(p \div 2^k, p % 2^k, 2^k)
                r == IF m = 2^F32Prec
                     THEN [m |-> 2^(F32Prec - 1), e |-> s.e + k + 1]
                     ELSE [m |-> m, e |-> s.e + k]
            IN IF IsInf(r) THEN F32Inf ELSE r

\* positions holding an element of largest magnitude of a block that is not
\* all zero
MaxElems == {j \in 1..Len(tensor) :
                tensor[j] # 0 /\ Abs(tensor[j]) = MaxAbsOf(BlockOf(j))}

\* C25 (as stated): an element whose magnitude is the block's maximum gets
\* code +levelMax or -levelMax by its sign, and code * scale gives the element
\* back exactly.
C25_MaxElementExact ==
    Done => \A j \in MaxElems :
        /\ quantized_flat[j] = Sign(tensor[j]) * LevelMax(bits)
        /\ DyEq(F32Mul(LevelMax(bits), scales[BlockOf(j)]), Abs(tensor[j]))

\* C25 (amended): in a block whose scale is a normal float32, an element whose
\* magnitude is the block's maximum gets code +levelMax or -levelMax by its
\* sign, and code * scale differs from the element by at most levelMax half
\* units in the last place of the scale.
C25_MaxElementUpToRounding ==
    Done => \A j \in MaxElems :
        NormalScale(scales[BlockOf(j)]) =>
            /\ quantized_flat[j] = Sign(tensor[j]) * LevelMax(bits)
            /\ IsNearest(scales[BlockOf(j)], Abs(tensor[j]), LevelMax(bits))

\* an 8-bit block with two elements of largest magnitude and opposite signs
\* whose scale is rounded, coded 127 and -127
C25_Witness ==
    /\ Done /\ bits = 8
    /\ \E j \in MaxElems : \E k \in MaxElems :
          /\ BlockOf(j) = BlockOf(k)
          /\ tensor[j] > 0 /\ tensor[k] < 0
          /\ NormalScale(scales[BlockOf(j)])
          /\ LET Q == ExactQuot(tensor[j], scales[BlockOf(j)])
             IN Q.q # LevelMax(bits) \/ Q.r > 0
          /\ quantized_flat[j] = 127 /\ quantized_flat[k] = -127

\* magnitude of the dequantized value of element j, code * scale in float32
Dequantized(j) == F32Mul(Abs(quantized_flat[j]), scales[BlockOf(j)])

\* order of two non-negative float32 values
DyLess(a, b) == a.e < b.e \/ (a.e = b.e /\ a.m < b.m)

\* largest dequantized magnitude of block i
DeqMaxOf(i) ==
    LET D == {Dequantized(j) : j \in RealIdx(i)}
    IN CHOOSE d \in D : \A d2 \in D : ~DyLess(d, d2)

\* some dequantized value of block i is infinite
DeqOverflows(i) == \E j \in RealIdx(i) : IsInf(Dequantized(j))

\* scale of block i when the dequantized values are quantized again; a block
\* holding an infinite value has max_abs = inf and scale inf / max_val = inf
ReScale(i) ==
    LET mx == DeqMaxOf(i)
    IN IF IsInf(mx) THEN F32Inf ELSE block_scale(<<mx.m>>, mx.e, bits)

\* code of element j when the dequantized values are quantized again: under
\* an infinite scale inf / inf is nan and a finite value over inf is 0
ReCode(j, nan_code) ==
    LET d == Dequantized(j)
        s2 == ReScale(BlockOf(j))
    IN IF IsInf(s2) THEN (IF IsInf(d) THEN nan_code ELSE 0)
       ELSE quantize_elem(Sign(quantized_flat[j]) * d.m, d.e, s2, bits, nan_code)

\* block i keeps its scale and its codes under dequantize-then-quantize
Stable(i) ==
    /\ ReScale(i) = scales[i]
    /\ \A j \in RealIdx(i) : \E nan_code \in NanCast :
          ReCode(j, nan_code) = quantized_flat[j]

\* C26 (as stated): quantizing the dequantized values (code * scale) again
\* with the same block size and bits gives every block the same scale and the
\* same codes.
C26_RequantizationStable ==
    Done => \A i \in 1..Len(scales) : Stable(i)

\* C26 (amended): for a buffer of finite values, quantizing the dequantized
\* values again gives the same scale and the same codes in every block whose
\* scale is a normal float32 and whose dequantized values are all finite.
C26_RequantizationStableNormal ==
    Done => \A i \in 1..Len(scales) :
        (NormalScale(scales[i]) /\ ~DeqOverflows(i)) => Stable(i)

\* a stable block with a normal scale holding an element whose code is
\* strictly inside the range and whose dequantized value is not the input
C26_Witness ==
    /\ Done
    /\ \E j \in 1..Len(tensor) :
          /\ NormalScale(scales[BlockOf(j)])
          /\ ~DeqOverflows(BlockOf(j))
          /\ quantized_flat[j] \notin {0, LevelMax(bits), -LevelMax(bits)}
          /\ ~DyEq(Dequantized(j), Abs(tensor[j]))
          /\ Stable(BlockOf(j))

\* the largest float32 is quantized with 8 bits and code * scale overflows:
\* the block is not stable although its scale is normal
C26_OverflowReached ==
    /\ Done
    /\ \E i \in 1..Len(scales) :
          NormalScale(scales[i]) /\ DeqOverflows(i) /\ ~Stable(i)

\* the element-wise negation of the input buffer
Negated == [j \in 1..Len(tensor) |-> -tensor[j]]

\* code of element j when the negated buffer is quantized
NegCode(j, sc, nan_code) ==
    quantize_elem(-tensor[j], tensor_exp, sc[BlockOf(j)], bits, nan_code)

\* np.round(x / s) before clipping, for x / s not nan; an infinite quotient is
\* stood for by the first integer beyond the clip range on its side
RoundedQuot(h, s) ==
    LET q == F32Quot(h, tensor_exp, s)
    IN IF q.kind = "inf" THEN q.sgn * (LevelMax(bits) + 2)
       ELSE q.sgn * Rint(q.v)

\* C27 (as stated): quantizing the negated buffer gives every block the same
\* scale and every element the negated code.
C27_SignSymmetry ==
    Done =>
      LET sc == Scales(Negated, tensor_exp, block_size, bits)
      IN /\ sc = scales
         /\ \A j \in 1..Len(tensor) : \E nan_code \in NanCast :
               NegCode(j, sc, nan_code) = -quantized_flat[j]

\* C27 (amended): quantizing the negated buffer gives every block the same
\* scale, and the codes of x and -x are clip(k) and clip(-k) for the same
\* integer k = round(x / scale): negated codes when |k| <= levelMax, and
\* levelMax against levelMin when |k| > levelMax (x / scale not nan).
C27_SignSymmetryBeforeClip ==
    Done =>
      LET sc == Scales(Negated, tensor_exp, block_size, bits)
      IN /\ sc = scales
         /\ \A j \in 1..Len(tensor) :
               LET s == scales[BlockOf(j)]
               IN (s.m # 0 \/ tensor[j] # 0) =>
                    LET k == RoundedQuot(tensor[j], s)
                    IN /\ quantized_flat[j] = clip(k, LevelMin(bits), LevelMax(bits))
                       /\ NegCode(j, sc, 0) = clip(-k, LevelMin(bits), LevelMax(bits))
                       /\ Abs(k) <= LevelMax(bits) =>
                             NegCode(j, sc, 0) = -quantized_flat[j]

\* a block with a non-zero scale holding an element coded levelMax whose
\* negation is coded levelMin, and a non-zero element within the symmetric
\* range whose negation gets the negated code
C27_Witness ==
    /\ Done
    /\ LET sc == Scales(Negated, tensor_exp, block_size, bits)
       IN \E j \in 1..Len(tensor) : \E k \in 1..Len(tensor) :
             /\ BlockOf(j) = BlockOf(k)
             /\ scales[BlockOf(j)].m # 0
             /\ quantized_flat[j] = LevelMax(bits)
             /\ NegCode(j, sc, 0) = LevelMin(bits)
             /\ quantized_flat[k] \notin {0, LevelMax(bits), LevelMin(bits)}
             /\ NegCode(k, sc, 0) = -quantized_flat[k]

\* the tensors among the first k of the iteration order that the policy
\* quantizes, and those it keeps
QuantizedAmong(k) == {i \in 1..k : Quantizes(order[i])}

KeptAmong(k) == {i \in 1..k : ~Quantizes(order[i])}

\* C28: after any prefix of the tensor list has been processed, the counter
\* quantized_tensors is the number of quantized tensors of the prefix and
\* kept_original the number of kept ones, so that their sum is the number of
\* tensors processed; at return the sum is total_tensors.
C28_CountersPartition ==
    pc \in {"loop", "saved", "returned", "raised"} =>
      /\ stats.quantized_tensors = Cardinality(QuantizedAmong(idx - 1))
      /\ stats.kept_original = Cardinality(KeptAmong(idx - 1))
      /\ stats.quantized_tensors + stats.kept_original = idx - 1
      /\ pc = "returned" =>
            /\ stats.quantized_tensors + stats.kept_original = stats.total_tensors
            /\ stats.total_tensors = Cardinality(DOMAIN tensors)

\* quantize_model has returned after a run over three tensors of which some
\* were quantized and some kept
C28_Witness ==
    /\ pc = "returned"
    /\ stats.total_tensors = MaxTensors
    /\ stats.quantized_tensors >= 1
    /\ stats.kept_original >= 1

upper_char(c) ==
    IF \E i \in 1..Len(LowerChars) : LowerChars[i] = c
    THEN UpperChars[CHOOSE i \in 1..Len(LowerChars) : LowerChars[i] = c]
    ELSE c

\* the letter case of character c switched
toggle_char(c) == IF lower_char(c) = c THEN upper_char(c) ELSE lower_char(c)

\* spellings of nm that differ from it only in letter case: all lower case,
\* all upper case, and nm with the case of one character switched
CaseVariants(nm) ==
    {[i \in 1..Len(nm) |-> lower_char(nm[i])],
     [i \in 1..Len(nm) |-> upper_char(nm[i])]}
    \cup {[i \in 1..Len(nm) |-> IF i = k THEN toggle_char(nm[i]) ELSE nm[i]] :
             k \in 1..Len(nm)}

\* C29: the decision depends on the name only up to letter case: every
\* spelling of the name in another case gets the decision the name got, for
\* the same element count.
C29_CaseInsensitive ==
    pc = "decided" =>
      \A v \in CaseVariants(name) :
          BoolStr(should_quantize_tensor(v, tensor_size)) = decision

\* a name spelled with a capital ("Weight"), exactly 512 elements, quantized,
\* and an all-upper-case spelling of it that differs from the name
C29_Witness ==
    /\ pc = "decided"
    /\ Contains(F_CWEIGHT, name)
    /\ tensor_size = SmallTensorLimit
    /\ decision = "True"
    /\ \E v \in CaseVariants(name) : v # name /\ Contains(<<"W", "E">>, v)

\* C30: once the writer has succeeded quantize_model returns its statistics:
\* the step that follows a successful write is the return, never an error.
C30_ReturnsAfterWrite ==
    [][pc = "saved" => pc' = "returned"]_vars
====
